---- MODULE Spec2Model ----
(***************************************************************************)
(* Model of libOpenings.py: the loader of the hive-openings log            *)
(* (build_openings_df) and the three queries over the loaded table         *)
(* (get_invalid_times, filter_timestamps, valid_ts).                       *)
(*                                                                         *)
(* Time is counted in minutes.  A timestamp of the table is the instant    *)
(* date * MinutesPerDay + minute-of-day (the wall-clock time of the log,   *)
(* localized to CET); a timestamp handed to a query is a record            *)
(* [t |-> instant, tz |-> it carries a timezone].                          *)
(***************************************************************************)
EXTENDS Integers, Sequences, FiniteSets, TLC

VARIABLES lines, openings_df, pc, call, result

vars == <<lines, openings_df, pc, call, result>>

(* ------------------------------ bounds -------------------------------- *)
\* lines in the openings file
MaxLines == 2
\* longest list handed to filter_timestamps
MaxLen == 2
\* most digits after the 'h' of a hive token
MaxDigits == 2

\* the minutes of the day a log line can name (the model's day is short)
TimesOfDay == {0, 1}
MinutesPerDay == Cardinality(TimesOfDay)
\* the hives of the log and of the queries
Hives == {1, 2}
\* the recovery_time of a query, in minutes
RecoveryTimes == {-1, 0, 1, 2}

SeqsUpTo(S, n) == UNION {[1 .. k -> S] : k \in 0 .. n}

Range(s) == {s[i] : i \in DOMAIN s}

Max(a, b) == IF a >= b THEN a ELSE b

Min(a, b) == IF a <= b THEN a ELSE b

(* --------------------------- the log file ----------------------------- *)
\* One line of the file: `hash` (it starts with '#'), `parts` (the number of
\* fields opening.strip().split(' ', 3) yields; 0 for a blank line), and the
\* fields: the date, the two times of day of the time range, the digits
\* after the 'h' of the hive token, the comment ("" when there is none).
Line(h, p, d, a, b, hv, c) ==
    [hash |-> h, parts |-> p, date |-> d, time |-> <<a, b>>, hives |-> hv, comment |-> c]

BlankLine == Line(FALSE, 0, 0, 0, 0, <<>>, "")

HashLine == Line(TRUE, 3, 0, 0, 0, <<1>>, "")

\* a line of two fields: a date and a time range, no hive token
ShortLine == Line(FALSE, 2, 0, 0, 0, <<>>, "")

\* a line of three fields whose third holds no 'h' followed by a digit
DigitlessLine == Line(FALSE, 3, 0, 0, 0, <<>>, "")

EntryLines(dates, starts, ends, digits, comments) ==
    {Line(FALSE, IF c = "" THEN 3 ELSE 4, d, a, b, hv, c) :
        d \in dates, a \in starts, b \in ends,
        hv \in UNION {[1 .. k -> Hives] : k \in 1 .. digits},
        c \in comments}

\* the lines of the loader's specification: every shape of line; the
\* entries are of the second day of the log, without a comment over any two
\* times of day, with a comment over one time range
LoaderLines ==
    {BlankLine, HashLine, ShortLine, DigitlessLine}
        \cup EntryLines({1}, TimesOfDay, TimesOfDay, MaxDigits, {""})
        \cup EntryLines({1}, {0}, {1}, MaxDigits, {"inspection"})

\* the lines of the queries' specification: entries of the first day, one
\* hive per line, any two times of day
QueryLines == EntryLines({0}, TimesOfDay, TimesOfDay, 1, {""})

(* ----------------------------- the loader ----------------------------- *)
Ok(v) == [status |-> "ok", value |-> v]

Err(e) == [status |-> e, value |-> <<>>]

\* lines 35-40: pd.to_datetime(date + ' ' + time, format='%d/%m/%y %H:%M')
\* and tz_localize('CET'): the instant of a wall-clock time of the log.  The
\* days of the model have no change of clock.
to_datetime(date, time) == date * MinutesPerDay + time

\* lines 24-31: the lines that reach openings_data
Kept(l) == l.parts > 0 /\ ~l.hash /\ l.parts \in {3, 4}

\* explode, had the digits of the token been read as one number
explode_mutant(l) ==
    LET n == IF Len(l.hives) = 1 THEN l.hives[1]
             ELSE 10 * l.hives[1] + l.hives[Len(l.hives)]
    IN  <<[start_opening |-> to_datetime(l.date, l.time[1]),
           end_opening   |-> to_datetime(l.date, l.time[2]),
           hive_nb       |-> n,
           comment       |-> l.comment]>>

\* lines 44-49 for one row: one record per digit of the hive token
explode(l) ==
    [i \in 1 .. Len(l.hives) |->
        [start_opening |-> to_datetime(l.date, l.time[1]),
         end_opening   |-> to_datetime(l.date, l.time[2]),
         hive_nb       |-> l.hives[i],
         comment       |-> l.comment]]

RECURSIVE ExplodeAll(_)
ExplodeAll(rows) ==
    IF rows = <<>> THEN <<>> ELSE explode(Head(rows)) \o ExplodeAll(Tail(rows))

build_openings_df(file) ==
    LET openings_data == SelectSeq(file, Kept)
    IN  IF openings_data = <<>>
        THEN Err("KeyError")           \* line 35: the empty frame has no 'date'
        ELSE IF \E i \in DOMAIN openings_data : openings_data[i].hives = <<>>
        THEN Err("ValueError")         \* line 49: NaN cannot be cast to int
        ELSE Ok(ExplodeAll(openings_data))

(* ----------------------------- the queries ---------------------------- *)
Timestamp(n) == [t |-> n, tz |-> TRUE]

NaiveTimestamp == [t |-> 0, tz |-> FALSE]

\* the instants of the queries: the first day of the log and the two minutes
\* after it
QueryTimes == {0, 1, 2, 3}

QueryTimestamps == {Timestamp(n) : n \in QueryTimes} \cup {NaiveTimestamp}

\* HiveMask, had the filter on the hive been left out
HiveMask_mutant(row, hive_nb) == TRUE

\* line 77
HiveMask(row, hive_nb) == row.hive_nb = hive_nb

\* EndOfRecovery, had the recovery time been left out
EndOfRecovery_mutant(row, recovery_time) == row.end_opening

\* lines 79, 80, 86: row['end_opening'] + pd.Timedelta(minutes=recovery_time)
EndOfRecovery(row, recovery_time) == row.end_opening + recovery_time

\* Overlaps, had line 79 compared with < end_ts
Overlaps_mutant(row, start_ts, end_ts, recovery_time) ==
    \/ row.start_opening < end_ts /\ row.start_opening >= start_ts
    \/ EndOfRecovery(row, recovery_time) > start_ts /\ EndOfRecovery(row, recovery_time) < end_ts
    \/ row.start_opening <= start_ts /\ EndOfRecovery(row, recovery_time) >= end_ts

\* lines 78-80: the mask of the rows that reach the result
Overlaps(row, start_ts, end_ts, recovery_time) ==
    \/ row.start_opening < end_ts /\ row.start_opening >= start_ts
    \/ EndOfRecovery(row, recovery_time) > start_ts /\ EndOfRecovery(row, recovery_time) <= end_ts
    \/ row.start_opening <= start_ts /\ EndOfRecovery(row, recovery_time) >= end_ts

\* Exclusion, had line 86 not clipped the end to end_ts
Exclusion_mutant(row, start_ts, end_ts, recovery_time) ==
    [start |-> Max(row.start_opening, start_ts),
     end   |-> EndOfRecovery(row, recovery_time)]

\* lines 85-91
Exclusion(row, start_ts, end_ts, recovery_time) ==
    [start |-> Max(row.start_opening, start_ts),
     end   |-> Min(EndOfRecovery(row, recovery_time), end_ts)]

\* lines 77-94 over the rows of the table, in the table's order
RECURSIVE InvalidTimes(_, _, _, _, _)
InvalidTimes(df, start_ts, end_ts, hive_nb, recovery_time) ==
    IF df = <<>> THEN <<>>
    ELSE LET row  == Head(df)
             rest == InvalidTimes(Tail(df), start_ts, end_ts, hive_nb, recovery_time)
         IN  IF /\ HiveMask(row, hive_nb)
                /\ Overlaps(row, start_ts, end_ts, recovery_time)
             THEN <<Exclusion(row, start_ts, end_ts, recovery_time)>> \o rest
             ELSE rest

get_invalid_times(df, start_ts, end_ts, hive_nb, recovery_time) ==
    IF ~start_ts.tz \/ ~end_ts.tz
    THEN Err("AssertionError")
    ELSE Ok(InvalidTimes(df, start_ts.t, end_ts.t, hive_nb, recovery_time))

\* sorted, had line 111 been left out
sorted_mutant(s) == s

RECURSIVE Insert(_, _)
Insert(x, s) ==
    IF s = <<>> THEN <<x>>
    ELSE IF x.t < Head(s).t THEN <<x>> \o s
    ELSE <<Head(s)>> \o Insert(x, Tail(s))

RECURSIVE InsertionSort(_)
InsertionSort(s) ==
    IF s = <<>> THEN <<>> ELSE Insert(s[Len(s)], InsertionSort(SubSeq(s, 1, Len(s) - 1)))

\* line 111: sorted(timestamps), by insertion on the instants
sorted(s) == InsertionSort(s)

filter_timestamps(df, timestamps, hive_nb, recovery_time) ==
    IF \E i \in DOMAIN timestamps : ~timestamps[i].tz
    THEN Err("AssertionError")                  \* lines 108-109
    ELSE IF timestamps = <<>>
    THEN Err("ValueError")                      \* line 113: min() of an empty list
    ELSE LET ts       == sorted(timestamps)
             start_ts == CHOOSE x \in Range(ts) : \A y \in Range(ts) : x.t <= y.t
             end_ts   == CHOOSE x \in Range(ts) : \A y \in Range(ts) : x.t >= y.t
             invalid_times ==
                 get_invalid_times(df, start_ts, end_ts, hive_nb, recovery_time).value
             is_valid(x) ==
                 ~\E k \in DOMAIN invalid_times :
                     invalid_times[k].start <= x.t /\ x.t <= invalid_times[k].end
         IN  Ok(SelectSeq(ts, is_valid))

valid_ts(df, timestamp, hive_nb, recovery_time) ==
    LET r == filter_timestamps(df, <<timestamp>>, hive_nb, recovery_time)
    IN  IF r.status = "ok" THEN Ok(Len(r.value) > 0) ELSE r

(* ------------------------------ actions ------------------------------- *)
NoCall == [fn |-> "none"]

NoResult == [status |-> "none", value |-> <<>>]

\* line 59: the module builds the table when it is imported
BuildOpeningsDf ==
    /\ pc = "import"
    /\ LET r == build_openings_df(lines)
       IN  /\ openings_df' = r.value
           /\ pc' = IF r.status = "ok" THEN "ready" ELSE r.status
    /\ UNCHANGED <<lines, call, result>>

GetInvalidTimes ==
    /\ pc = "ready"
    /\ \E start_ts \in QueryTimestamps, end_ts \in QueryTimestamps,
          hive_nb \in Hives, recovery_time \in RecoveryTimes :
        /\ call' = [fn |-> "get_invalid_times", start_ts |-> start_ts, end_ts |-> end_ts,
                    hive_nb |-> hive_nb, recovery_time |-> recovery_time]
        /\ result' = get_invalid_times(openings_df, start_ts, end_ts, hive_nb, recovery_time)
    /\ pc' = "returned"
    /\ UNCHANGED <<lines, openings_df>>

FilterTimestamps ==
    /\ pc = "ready"
    /\ \E timestamps \in SeqsUpTo(QueryTimestamps, MaxLen),
          hive_nb \in Hives, recovery_time \in RecoveryTimes :
        /\ call' = [fn |-> "filter_timestamps", timestamps |-> timestamps,
                    hive_nb |-> hive_nb, recovery_time |-> recovery_time]
        /\ result' = filter_timestamps(openings_df, timestamps, hive_nb, recovery_time)
    /\ pc' = "returned"
    /\ UNCHANGED <<lines, openings_df>>

ValidTs ==
    /\ pc = "ready"
    /\ \E timestamp \in QueryTimestamps, hive_nb \in Hives, recovery_time \in RecoveryTimes :
        /\ call' = [fn |-> "valid_ts", timestamp |-> timestamp,
                    hive_nb |-> hive_nb, recovery_time |-> recovery_time]
        /\ result' = valid_ts(openings_df, timestamp, hive_nb, recovery_time)
    /\ pc' = "returned"
    /\ UNCHANGED <<lines, openings_df>>

\* lines 94, 133, 144: the query hands its result to the caller, who may
\* ask again
Return ==
    /\ pc = "returned"
    /\ pc' = "ready"
    /\ call' = NoCall
    /\ result' = NoResult
    /\ UNCHANGED <<lines, openings_df>>

Init ==
    /\ \E n \in 0 .. MaxLines : lines \in [1 .. n -> QueryLines]
    /\ openings_df = <<>>
    /\ pc = "import"
    /\ call = NoCall
    /\ result = NoResult

Next ==
    \/ BuildOpeningsDf
    \/ GetInvalidTimes
    \/ FilterTimestamps
    \/ ValidTs
    \/ Return

Spec == Init /\ [][Next]_vars

\* the loader alone, over every shape of file
LoaderInit ==
    /\ \E n \in 0 .. MaxLines : lines \in [1 .. n -> LoaderLines]
    /\ openings_df = <<>>
    /\ pc = "import"
    /\ call = NoCall
    /\ result = NoResult

LoaderNext == BuildOpeningsDf

LoaderSpec == LoaderInit /\ [][LoaderNext]_vars

(* ------------------------------ claims -------------------------------- *)
Returned(fn) == pc = "returned" /\ call.fn = fn

WellFormed(row) == row.start_opening <= row.end_opening

OnlyHive(df, h) == SelectSeq(df, LAMBDA row : row.hive_nb = h)

PermutationsOf(s) ==
    {[i \in DOMAIN s |-> s[f[i]]] :
        f \in {g \in [DOMAIN s -> DOMAIN s] : \A a, b \in DOMAIN s : a # b => g[a] # g[b]}}

\* C1: a timestamp of the list that equals start_opening or end_opening +
\* recovery_time of a record of the queried hive (a record whose window is
\* not inverted) is absent from what filter_timestamps returns, whatever the
\* other timestamps of the list are.
C1_BoundaryInclusive ==
    (Returned("filter_timestamps") /\ result.status = "ok" /\ call.recovery_time >= 0) =>
        \A i \in DOMAIN openings_df : \A k \in DOMAIN call.timestamps :
            (/\ openings_df[i].hive_nb = call.hive_nb
             /\ WellFormed(openings_df[i])
             /\ \/ call.timestamps[k].t = openings_df[i].start_opening
                \/ call.timestamps[k].t = openings_df[i].end_opening + call.recovery_time)
            => call.timestamps[k] \notin Range(result.value)

\* C2: for a timezone-aware t and recovery >= 0, valid_ts returns False
\* exactly when some record of the hive has
\* start_opening <= t <= end_opening + recovery.
C2_RecoveryExtension ==
    (Returned("valid_ts") /\ call.timestamp.tz /\ call.recovery_time >= 0) =>
        /\ result.status = "ok"
        /\ result.value =
              ~(\E i \in DOMAIN openings_df :
                    /\ openings_df[i].hive_nb = call.hive_nb
                    /\ openings_df[i].start_opening <= call.timestamp.t
                    /\ call.timestamp.t <= openings_df[i].end_opening + call.recovery_time)

\* valid_ts said False for a t that lies after the end of every opening of
\* the hive that has begun, within the recovery time of one of them
C2_Witness ==
    /\ Returned("valid_ts")
    /\ result.status = "ok"
    /\ result.value = FALSE
    /\ call.recovery_time > 0
    /\ \A i \in DOMAIN openings_df :
          openings_df[i].hive_nb = call.hive_nb =>
              ~(/\ openings_df[i].start_opening <= call.timestamp.t
                /\ call.timestamp.t <= openings_df[i].end_opening)
    /\ \E i \in DOMAIN openings_df :
          /\ openings_df[i].hive_nb = call.hive_nb
          /\ WellFormed(openings_df[i])
          /\ openings_df[i].end_opening < call.timestamp.t
          /\ call.timestamp.t <= openings_df[i].end_opening + call.recovery_time

\* C3: every query returns what it returns on the table stripped of the
\* records of the other hives; two tables with the same records for the
\* queried hive have the same stripped table, hence the same results.
C3_HiveIsolation ==
    pc = "returned" =>
        LET own == OnlyHive(openings_df, call.hive_nb)
        IN  result =
              CASE call.fn = "get_invalid_times" ->
                     get_invalid_times(own, call.start_ts, call.end_ts,
                                       call.hive_nb, call.recovery_time)
                [] call.fn = "filter_timestamps" ->
                     filter_timestamps(own, call.timestamps, call.hive_nb, call.recovery_time)
                [] call.fn = "valid_ts" ->
                     valid_ts(own, call.timestamp, call.hive_nb, call.recovery_time)

\* filter_timestamps kept a timestamp that lies inside an opening of another
\* hive
C3_Witness ==
    /\ Returned("filter_timestamps")
    /\ result.status = "ok"
    /\ call.recovery_time >= 0
    /\ \E i \in DOMAIN openings_df : openings_df[i].hive_nb = call.hive_nb
    /\ \E i \in DOMAIN openings_df : \E k \in DOMAIN call.timestamps :
          /\ openings_df[i].hive_nb # call.hive_nb
          /\ openings_df[i].start_opening <= call.timestamps[k].t
          /\ call.timestamps[k].t <= openings_df[i].end_opening
          /\ call.timestamps[k] \in Range(result.value)

\* C4: what filter_timestamps returns for a non-empty list is in ascending
\* order, and every permutation of the list gives the same result.
C4_AscendingOrder ==
    (Returned("filter_timestamps") /\ result.status = "ok") =>
        /\ \A i \in 1 .. Len(result.value) - 1 : result.value[i].t <= result.value[i + 1].t
        /\ \A p \in PermutationsOf(call.timestamps) :
              filter_timestamps(openings_df, p, call.hive_nb, call.recovery_time) = result

\* a list in descending order, both timestamps kept
C4_Witness ==
    /\ Returned("filter_timestamps")
    /\ result.status = "ok"
    /\ Len(call.timestamps) = 2
    /\ call.timestamps[1].t > call.timestamps[2].t
    /\ Len(result.value) = 2

\* the three conditions as the specification words them
ContributesAsWorded(row, start_ts, end_ts, recovery_time) ==
    \/ start_ts <= row.start_opening /\ row.start_opening < end_ts
    \/ start_ts < row.end_opening + recovery_time /\ row.end_opening + recovery_time < end_ts
    \/ row.start_opening <= start_ts /\ row.end_opening + recovery_time >= end_ts

\* the three conditions, the second one closed at end_ts
ContributesClosed(row, start_ts, end_ts, recovery_time) ==
    \/ start_ts <= row.start_opening /\ row.start_opening < end_ts
    \/ start_ts < row.end_opening + recovery_time /\ row.end_opening + recovery_time <= end_ts
    \/ row.start_opening <= start_ts /\ row.end_opening + recovery_time >= end_ts

\* C5 as worded: get_invalid_times returns one interval for each record of
\* the hive that meets one of (1) start_ts <= start_opening < end_ts,
\* (2) start_ts < end_opening + r < end_ts, (3) start_opening <= start_ts and
\* end_opening + r >= end_ts, and none for the other records.  Stated here
\* for the queries with recovery >= 0 over the tables without an inverted
\* record only, where it fails all the same.
C5_ContributionAsWorded ==
    (/\ Returned("get_invalid_times")
     /\ result.status = "ok"
     /\ call.recovery_time >= 0
     /\ \A i \in DOMAIN openings_df : WellFormed(openings_df[i])) =>
        Len(result.value) =
            Cardinality({i \in DOMAIN openings_df :
                /\ openings_df[i].hive_nb = call.hive_nb
                /\ ContributesAsWorded(openings_df[i], call.start_ts.t, call.end_ts.t,
                                       call.recovery_time)})

\* C5 amended: the same with condition (2) closed at its upper end,
\* start_ts < end_opening + r <= end_ts.
C5_ContributionClosed ==
    (Returned("get_invalid_times") /\ result.status = "ok") =>
        Len(result.value) =
            Cardinality({i \in DOMAIN openings_df :
                /\ openings_df[i].hive_nb = call.hive_nb
                /\ ContributesClosed(openings_df[i], call.start_ts.t, call.end_ts.t,
                                     call.recovery_time)})

\* a record whose window is not inverted contributes by its window ending
\* exactly at end_ts, and by nothing else
C5_Witness ==
    /\ Returned("get_invalid_times")
    /\ result.status = "ok"
    /\ call.recovery_time >= 0
    /\ Len(result.value) >= 1
    /\ \E i \in DOMAIN openings_df :
          /\ openings_df[i].hive_nb = call.hive_nb
          /\ WellFormed(openings_df[i])
          /\ openings_df[i].end_opening + call.recovery_time = call.end_ts.t
          /\ ~ContributesAsWorded(openings_df[i], call.start_ts.t, call.end_ts.t,
                                  call.recovery_time)
          /\ ContributesClosed(openings_df[i], call.start_ts.t, call.end_ts.t,
                               call.recovery_time)

AllAware ==
    CASE call.fn = "get_invalid_times" -> call.start_ts.tz /\ call.end_ts.tz
      [] call.fn = "filter_timestamps" -> \A k \in DOMAIN call.timestamps : call.timestamps[k].tz
      [] call.fn = "valid_ts" -> call.timestamp.tz

\* C6: a query whose timestamps all carry a timezone returns a result; the
\* only error of a query is the assertion on a timestamp without timezone.
C6_Totality ==
    pc = "returned" =>
        result.status = IF AllAware THEN "ok" ELSE "AssertionError"

RECURSIVE DigitCount(_)
DigitCount(rows) ==
    IF rows = <<>> THEN 0 ELSE Len(Head(rows).hives) + DigitCount(Tail(rows))

KeptLines == SelectSeq(lines, LAMBDA l : l.parts \in {3, 4} /\ ~l.hash)

\* C7: a kept line with k digits after 'h' gives k records, the i-th of hive
\* di (one digit), all with the start, end and comment of the line; the table
\* holds as many records as the kept lines hold digits.
C7_DigitwiseExpansion ==
    pc = "ready" =>
        /\ Len(openings_df) = DigitCount(KeptLines)
        /\ \A j \in DOMAIN KeptLines : \A i \in 1 .. Len(KeptLines[j].hives) :
              LET before == DigitCount(SubSeq(KeptLines, 1, j - 1))
                  rec    == openings_df[before + i]
                  first  == openings_df[before + 1]
              IN  /\ rec.hive_nb = KeptLines[j].hives[i]
                  /\ rec.hive_nb \in 0 .. 9
                  /\ rec.start_opening = first.start_opening
                  /\ rec.end_opening = first.end_opening
                  /\ rec.start_opening =
                        KeptLines[j].date * MinutesPerDay + KeptLines[j].time[1]
                  /\ rec.end_opening =
                        KeptLines[j].date * MinutesPerDay + KeptLines[j].time[2]
                  /\ rec.comment = KeptLines[j].comment

\* a file with a line of two different hives and a comment, and another
\* kept line, is loaded
C7_Witness ==
    /\ pc = "ready"
    /\ Len(KeptLines) = 2
    /\ Len(openings_df) >= 3
    /\ \E j \in DOMAIN KeptLines :
          /\ Len(KeptLines[j].hives) = 2
          /\ KeptLines[j].hives[1] # KeptLines[j].hives[2]
          /\ KeptLines[j].comment # ""

\* C8: every loaded record has end_opening >= start_opening.
C8_EndNotBeforeStart ==
    pc = "ready" =>
        \A i \in DOMAIN openings_df :
            openings_df[i].end_opening >= openings_df[i].start_opening

\* C9: for recovery >= 0, a timestamp of the list is in what
\* filter_timestamps returns exactly when valid_ts holds of it alone.
C9_BatchSingleConsistency ==
    (Returned("filter_timestamps") /\ result.status = "ok" /\ call.recovery_time >= 0) =>
        \A k \in DOMAIN call.timestamps :
            (call.timestamps[k] \in Range(result.value))
                <=> valid_ts(openings_df, call.timestamps[k], call.hive_nb,
                             call.recovery_time).value

\* C10: with start_ts <= end_ts, recovery >= 0 and no inverted record in the
\* table, every returned interval is that of a record of the hive clipped to
\* the query window, and start_ts <= start <= end <= end_ts.
C10_ClippedIntervals ==
    (/\ Returned("get_invalid_times")
     /\ result.status = "ok"
     /\ call.start_ts.t <= call.end_ts.t
     /\ call.recovery_time >= 0
     /\ \A i \in DOMAIN openings_df : WellFormed(openings_df[i])) =>
        \A k \in DOMAIN result.value :
            /\ call.start_ts.t <= result.value[k].start
            /\ result.value[k].start <= result.value[k].end
            /\ result.value[k].end <= call.end_ts.t
            /\ \E i \in DOMAIN openings_df :
                  /\ openings_df[i].hive_nb = call.hive_nb
                  /\ result.value[k].start =
                        (IF openings_df[i].start_opening >= call.start_ts.t
                         THEN openings_df[i].start_opening ELSE call.start_ts.t)
                  /\ result.value[k].end =
                        (IF openings_df[i].end_opening + call.recovery_time <= call.end_ts.t
                         THEN openings_df[i].end_opening + call.recovery_time
                         ELSE call.end_ts.t)

\* an interval clipped at both ends of the query window is returned
C10_Witness ==
    /\ Returned("get_invalid_times")
    /\ result.status = "ok"
    /\ call.start_ts.t < call.end_ts.t
    /\ call.recovery_time >= 0
    /\ \A i \in DOMAIN openings_df : WellFormed(openings_df[i])
    /\ \E i \in DOMAIN openings_df :
          /\ openings_df[i].hive_nb = call.hive_nb
          /\ openings_df[i].start_opening < call.start_ts.t
          /\ openings_df[i].end_opening + call.recovery_time > call.end_ts.t
    /\ \E k \in DOMAIN result.value :
          /\ result.value[k].start = call.start_ts.t
          /\ result.value[k].end = call.end_ts.t

====
